---- MODULE Spec2Model ----
(***************************************************************************)
(* Clip builder page (src/src/app/page.tsx): the time codec                *)
(* (formatSeconds, parseTimeInput), the link builders and the form state   *)
(* of the Home component (clips, titleInput, startInput, endInput, error)  *)
(* with its handlers.                                                      *)
(*                                                                         *)
(* A JavaScript string is a sequence of one-character strings, so that     *)
(* trimming, splitting, padding and concatenation are computed.  A value   *)
(* that may be null is Null or Some(v).                                    *)
(***************************************************************************)
EXTENDS Integers, Sequences, FiniteSets, TLC

VARIABLES
    clips,       \* useState<Clip[]>(BASE_CLIPS)
    titleInput,  \* useState("")
    startInput,  \* useState("00:30")
    endInput,    \* useState("01:15")
    error,       \* useState<string | null>(null)
    now,         \* the reading Date.now() returns
    lastEvent,   \* the step taken last: "init", "edit", "tick" or "submit"
    cpc,         \* codec runs: the position of the run
    cIn,         \* codec runs: the argument
    cMid,        \* codec runs: the result of the first conversion
    cOut         \* codec runs: the result of the second conversion

formVars == <<clips, titleInput, startInput, endInput, error, now, lastEvent>>
codecVars == <<cpc, cIn, cMid, cOut>>
vars == <<clips, titleInput, startInput, endInput, error, now, lastEvent,
          cpc, cIn, cMid, cOut>>

\* ------------------------------------------------------------------ bounds

\* Longest text handed to parseTimeInput in the exhaustive codec runs.
MaxTextLen == 7
\* Largest number of seconds handed to formatSeconds in the codec runs.
MaxSeconds == 36100
\* The collection is not grown beyond this many clips.
MaxClips == 5
\* The clock is not advanced beyond this reading.
MaxNow == 1

\* ----------------------------------------------------------------- strings

Null == <<>>
Some(v) == <<v>>
Get(o) == o[1]

DigitChars == <<"0", "1", "2", "3", "4", "5", "6", "7", "8", "9">>
Digits == {DigitChars[i] : i \in 1..10}
DigitVal(c) == (CHOOSE i \in 1..10 : DigitChars[i] = c) - 1

\* The white space String.prototype.trim removes (the characters of it that
\* the texts of the model use).
WhiteSpace == {" "}

RECURSIVE trimStart(_)
trimStart(s) ==
    IF s # <<>> /\ Head(s) \in WhiteSpace THEN trimStart(Tail(s)) ELSE s

RECURSIVE trimEnd(_)
trimEnd(s) ==
    IF s # <<>> /\ s[Len(s)] \in WhiteSpace
    THEN trimEnd(SubSeq(s, 1, Len(s) - 1))
    ELSE s

trim(s) == trimEnd(trimStart(s))

\* s.split(":"): the pieces between the colons; "" splits into [""].
RECURSIVE split(_)
split(s) ==
    IF \E i \in 1..Len(s) : s[i] = ":"
    THEN LET i == CHOOSE k \in 1..Len(s) :
                      s[k] = ":" /\ \A j \in 1..(k - 1) : s[j] # ":"
         IN  <<SubSeq(s, 1, i - 1)>> \o split(SubSeq(s, i + 1, Len(s)))
    ELSE <<s>>

\* Mutant: the pattern /^\d*$/, which an empty part matches.
IsDigits_star(part) == \A i \in 1..Len(part) : part[i] \in Digits

\* /^\d+$/.test(part)
IsDigits(part) == Len(part) > 0 /\ \A i \in 1..Len(part) : part[i] \in Digits

\* ----------------------------------------------------------------- numbers

\* A JavaScript number is a double.  The model holds the non-negative
\* integers it computes exactly, and Infinity, which the conversion of a
\* decimal text beyond Number.MAX_VALUE (about 1.8 * 10^308) yields.
Infinity == -1

\* A decimal integer of more than this many digits, the first not zero, is
\* at least 10^309 and converts to Infinity.
MaxFiniteDigits == 309

IsInteger(n) == n # Infinity /\ n \in Int

jsAdd(a, b) == IF a = Infinity \/ b = Infinity THEN Infinity ELSE a + b
\* a * b for b finite and positive.
jsMul(a, b) == IF a = Infinity THEN Infinity ELSE a * b
jsLeq(a, b) == IF b = Infinity THEN TRUE ELSE IF a = Infinity THEN FALSE ELSE a <= b
jsGt(a, b) == ~jsLeq(a, b)

RECURSIVE dropZeros(_)
dropZeros(part) ==
    IF part # <<>> /\ Head(part) = "0" THEN dropZeros(Tail(part)) ELSE part

RECURSIVE decimal(_)
decimal(part) ==
    IF part = <<>> THEN 0
    ELSE decimal(SubSeq(part, 1, Len(part) - 1)) * 10 + DigitVal(part[Len(part)])

\* Number(part), for a part of decimal digits.
Number(part) ==
    IF Len(dropZeros(part)) > MaxFiniteDigits THEN Infinity ELSE decimal(part)

RECURSIVE digitsOf(_)
digitsOf(n) ==
    IF n < 10 THEN <<DigitChars[n + 1]>>
    ELSE digitsOf(n \div 10) \o <<DigitChars[(n % 10) + 1]>>

\* String(n), for a non-negative integer or Infinity.
String(n) ==
    IF n = Infinity THEN <<"I", "n", "f", "i", "n", "i", "t", "y">>
    ELSE digitsOf(n)

RECURSIVE padStart(_, _, _)
padStart(s, n, c) == IF Len(s) >= n THEN s ELSE padStart(<<c>> \o s, n, c)

\* ------------------------------------------------------------------- codec

\* Mutant: the hours branch renders the total minutes, not the minutes
\* within the hour.
formatSeconds_totalMinutes(totalSeconds) ==
    LET hours == totalSeconds \div 3600
        seconds == totalSeconds % 60
        paddedSeconds == padStart(String(seconds), 2, "0")
        totalMinutes == totalSeconds \div 60
    IN  IF totalSeconds = Infinity
        THEN <<"I", "n", "f", "i", "n", "i", "t", "y", ":", "N", "a", "N", ":", "N", "a", "N">>
        ELSE IF hours > 0
        THEN String(hours) \o <<":">> \o String(totalMinutes) \o <<":">> \o paddedSeconds
        ELSE String(totalMinutes) \o <<":">> \o paddedSeconds

formatSeconds(totalSeconds) ==
    LET hours == totalSeconds \div 3600
        minutes == (totalSeconds % 3600) \div 60
        seconds == totalSeconds % 60
        paddedMinutes == padStart(String(minutes), 2, "0")
        paddedSeconds == padStart(String(seconds), 2, "0")
        totalMinutes == totalSeconds \div 60
    IN  \* Infinity / 3600 is Infinity, Infinity % 60 is NaN.
        IF totalSeconds = Infinity
        THEN <<"I", "n", "f", "i", "n", "i", "t", "y", ":", "N", "a", "N", ":", "N", "a", "N">>
        ELSE IF hours > 0
        THEN String(hours) \o <<":">> \o paddedMinutes \o <<":">> \o paddedSeconds
        ELSE String(totalMinutes) \o <<":">> \o paddedSeconds

\* The loop of parseTimeInput over the parts, with its early return.
RECURSIVE parseParts(_, _)
parseParts(parts, total) ==
    IF parts = <<>> THEN Some(total)
    ELSE IF ~IsDigits(Head(parts)) THEN Null
    ELSE parseParts(Tail(parts), jsAdd(jsMul(total, 60), Number(Head(parts))))

parseTimeInput(value) ==
    LET trimmed == trim(value)
        parts == split(trimmed)
    IN  IF trimmed = <<>> THEN Null
        ELSE IF Len(parts) > 3 THEN Null
        ELSE parseParts(parts, 0)

\* ------------------------------------------------------------------- links

VIDEO_ID ==
    <<"B", "Y", "i", "z", "g", "B", "2", "F", "c", "A", "Q">>

\* "https://www.youtube.com/embed/"
EmbedBase ==
    <<"h", "t", "t", "p", "s", ":", "/", "/", "w", "w", "w", ".", "y", "o",
      "u", "t", "u", "b", "e", ".", "c", "o", "m", "/", "e", "m", "b", "e",
      "d", "/">>

\* "https://www.youtube.com/watch?v="
WatchBase ==
    <<"h", "t", "t", "p", "s", ":", "/", "/", "w", "w", "w", ".", "y", "o",
      "u", "t", "u", "b", "e", ".", "c", "o", "m", "/", "w", "a", "t", "c",
      "h", "?", "v", "=">>

\* The fixed parameters after start and end, in URLSearchParams order.
EmbedFlags ==
    <<"&", "m", "o", "d", "e", "s", "t", "b", "r", "a", "n", "d", "i", "n",
      "g", "=", "1", "&", "r", "e", "l", "=", "0", "&", "c", "o", "n", "t",
      "r", "o", "l", "s", "=", "1">>

buildEmbedUrl(start, end) ==
    EmbedBase \o VIDEO_ID \o <<"?", "s", "t", "a", "r", "t", "=">> \o String(start)
        \o <<"&", "e", "n", "d", "=">> \o String(end) \o EmbedFlags

buildShareUrl(start) ==
    WatchBase \o VIDEO_ID \o <<"&", "t", "=">> \o String(start) \o <<"s">>

\* ------------------------------------------------------------------- clips

IdOpening ==
    <<"c", "l", "i", "p", "-", "o", "p", "e", "n", "i", "n", "g">>
IdRealism ==
    <<"c", "l", "i", "p", "-", "r", "e", "a", "l", "i", "s", "m">>
IdHumanFactor ==
    <<"c", "l", "i", "p", "-", "h", "u", "m", "a", "n", "-", "f", "a", "c",
      "t", "o", "r">>
TitleOpening ==
    <<"O", "p", "e", "n", "i", "n", "g", " ", "c", "o", "n", "t", "e", "x",
      "t">>
TitleRealism ==
    <<"G", "r", "o", "u", "n", "d", "i", "n", "g", " ", "A", "I", " ", "e",
      "x", "p", "e", "c", "t", "a", "t", "i", "o", "n", "s">>
TitleHumanFactor ==
    <<"K", "e", "e", "p", " ", "h", "u", "m", "a", "n", "s", " ", "i", "n",
      " ", "t", "h", "e", " ", "l", "o", "o", "p">>

\* The summary of a clip is display text no operation reads; it is left out.
BASE_CLIPS ==
    << [id |-> IdOpening, title |-> TitleOpening, start |-> 0, end |-> 88],
       [id |-> IdRealism, title |-> TitleRealism, start |-> 89, end |-> 208],
       [id |-> IdHumanFactor, title |-> TitleHumanFactor, start |-> 209, end |-> 332] >>

\* "clip-" of the id template
IdPrefix ==
    <<"c", "l", "i", "p", "-">>

\* "Custom clip #" of the fallback title template
CustomTitlePrefix ==
    <<"C", "u", "s", "t", "o", "m", " ", "c", "l", "i", "p", " ", "#">>

MalformedTimeMsg == "Time must be in mm:ss or hh:mm:ss format using numbers only."
InvalidRangeMsg == "End time must be after the start time."

\* ------------------------------------------------------------ form inputs

\* A text of 310 digits.
HugeDigits == [i \in 1..(MaxFiniteDigits + 1) |-> "9"]

\* The texts an edit may put into the title field.
TitleTexts ==
    { <<>>,
      <<" ", " ">>,
      <<" ">> \o CustomTitlePrefix \o <<"5", " ">> }

\* The texts an edit may put into the start and the end field.
TimeTexts ==
    { <<"0", "0", ":", "3", "0">>,
      <<"a", "b", ":", "c", "d">>,
      HugeDigits }

\* ------------------------------------------------------------ derived view

draftStartSeconds == parseTimeInput(startInput)
draftEndSeconds == parseTimeInput(endInput)

\* Mutant: the preview accepts end >= start.
draftPreviewUrl_geq ==
    IF /\ draftStartSeconds # Null
       /\ draftEndSeconds # Null
       /\ jsLeq(Get(draftStartSeconds), Get(draftEndSeconds))
    THEN Some(buildEmbedUrl(Get(draftStartSeconds), Get(draftEndSeconds)))
    ELSE Null

draftPreviewUrl ==
    IF /\ draftStartSeconds # Null
       /\ draftEndSeconds # Null
       /\ jsGt(Get(draftEndSeconds), Get(draftStartSeconds))
    THEN Some(buildEmbedUrl(Get(draftStartSeconds), Get(draftEndSeconds)))
    ELSE Null

\* A URL is a non-empty string, hence truthy; null is not.
Truthy(o) == o # Null /\ Get(o) # <<>>

\* The text of the "Preview share link" notice, Null when it is not rendered.
previewNotice ==
    IF Truthy(draftPreviewUrl) THEN Some(buildShareUrl(Get(draftStartSeconds)))
    ELSE Null

\* ---------------------------------------------------------------- handlers

\* The test of the second early return.
rangeRejected(start, end) == jsLeq(end, start)

\* The clip handleAddClip builds from the parsed times.
newClip(start, end) ==
    [ id |-> IdPrefix \o String(now),
      title |-> IF trim(titleInput) # <<>> THEN trim(titleInput)
                ELSE CustomTitlePrefix \o String(Len(clips) + 1),
      start |-> start,
      end |-> end ]

\* Mutant: the updater appends.
prepend_append(clip, current) == current \o <<clip>>

\* The updater handed to setClips.
prepend(clip, current) == <<clip>> \o current

\* Mutant: no return after the range error, so the handler goes on to add
\* the clip.
handleAddClip_noRangeReturn ==
    LET start == parseTimeInput(startInput)
        end == parseTimeInput(endInput)
    IN  /\ lastEvent' = "submit"
        /\ UNCHANGED <<startInput, endInput, now>>
        /\ UNCHANGED codecVars
        /\ IF start = Null \/ end = Null
           THEN /\ error' = Some(MalformedTimeMsg)
                /\ UNCHANGED <<clips, titleInput>>
           ELSE /\ Len(clips) < MaxClips
                /\ clips' = prepend(newClip(Get(start), Get(end)), clips)
                /\ titleInput' = <<>>
                /\ error' = Null

\* Mutant: a successful submit leaves the error as it is.
handleAddClip_keepError ==
    LET start == parseTimeInput(startInput)
        end == parseTimeInput(endInput)
    IN  /\ lastEvent' = "submit"
        /\ UNCHANGED <<startInput, endInput, now>>
        /\ UNCHANGED codecVars
        /\ IF start = Null \/ end = Null
           THEN /\ error' = Some(MalformedTimeMsg)
                /\ UNCHANGED <<clips, titleInput>>
           ELSE IF rangeRejected(Get(start), Get(end))
           THEN /\ error' = Some(InvalidRangeMsg)
                /\ UNCHANGED <<clips, titleInput>>
           ELSE /\ Len(clips) < MaxClips
                /\ clips' = prepend(newClip(Get(start), Get(end)), clips)
                /\ titleInput' = <<>>
                /\ UNCHANGED error

handleAddClip ==
    LET start == parseTimeInput(startInput)
        end == parseTimeInput(endInput)
    IN  /\ lastEvent' = "submit"
        /\ UNCHANGED <<startInput, endInput, now>>
        /\ UNCHANGED codecVars
        /\ IF start = Null \/ end = Null
           THEN /\ error' = Some(MalformedTimeMsg)
                /\ UNCHANGED <<clips, titleInput>>
           ELSE IF rangeRejected(Get(start), Get(end))
           THEN /\ error' = Some(InvalidRangeMsg)
                /\ UNCHANGED <<clips, titleInput>>
           ELSE /\ Len(clips) < MaxClips
                /\ clips' = prepend(newClip(Get(start), Get(end)), clips)
                /\ titleInput' = <<>>
                /\ error' = Null

setTitleInput ==
    \E v \in TitleTexts :
        /\ titleInput' = v
        /\ lastEvent' = "edit"
        /\ UNCHANGED <<clips, startInput, endInput, error, now>>
        /\ UNCHANGED codecVars

setStartInput ==
    \E v \in TimeTexts :
        /\ startInput' = v
        /\ lastEvent' = "edit"
        /\ UNCHANGED <<clips, titleInput, endInput, error, now>>
        /\ UNCHANGED codecVars

setEndInput ==
    \E v \in TimeTexts :
        /\ endInput' = v
        /\ lastEvent' = "edit"
        /\ UNCHANGED <<clips, titleInput, startInput, error, now>>
        /\ UNCHANGED codecVars

\* Time passes between events: Date.now() returns a later reading.
Tick ==
    /\ now < MaxNow
    /\ now' = now + 1
    /\ lastEvent' = "tick"
    /\ UNCHANGED <<clips, titleInput, startInput, endInput, error>>
    /\ UNCHANGED codecVars

Init ==
    /\ clips = BASE_CLIPS
    /\ titleInput = <<>>
    /\ startInput = <<"0", "0", ":", "3", "0">>
    /\ endInput = <<"0", "1", ":", "1", "5">>
    /\ error = Null
    /\ now = 0
    /\ lastEvent = "init"
    /\ cpc = "idle"
    /\ cIn = Null
    /\ cMid = Null
    /\ cOut = Null

Next ==
    \/ handleAddClip
    \/ setTitleInput
    \/ setStartInput
    \/ setEndInput
    \/ Tick

Spec == Init /\ [][Next]_vars

\* -------------------------------------------------------------- codec runs

\* The characters of the texts the codec runs parse: two digits, the
\* separator, white space and a letter.
Alphabet == {"0", "9", ":", " ", "a"}

\* Texts of other digits, or longer than MaxTextLen, that the codec runs
\* parse as well.
LongTexts ==
    { <<"1", ":", "3", "0">>,
      <<"5", ":", "9", "9">>,
      <<"1", ":", "1", ":", "1", ":", "1">>,
      <<"1", ":", "0", "1", ":", "0", "1">>,
      <<" ", "9", "9", ":", "9", "9", " ">>,
      <<"0", ":", "0", ":", "0", ":", "0", ":", "0">>,
      HugeDigits,
      <<"1", ":">> \o HugeDigits,
      <<"1", "2", ":", "3", "4", ":", "5", "6">> }

Texts == UNION {[1..k -> Alphabet] : k \in 0..MaxTextLen} \cup LongTexts

\* format first: n -> formatSeconds(n) -> parseTimeInput(...)
FormatArg ==
    /\ cpc = "n"
    /\ cMid' = formatSeconds(cIn)
    /\ cpc' = "n_formatted"
    /\ UNCHANGED <<cIn, cOut>>
    /\ UNCHANGED formVars

ParseFormatted ==
    /\ cpc = "n_formatted"
    /\ cOut' = parseTimeInput(cMid)
    /\ cpc' = "n_done"
    /\ UNCHANGED <<cIn, cMid>>
    /\ UNCHANGED formVars

\* parse first: x -> parseTimeInput(x) -> formatSeconds(...) when x is valid
ParseArg ==
    /\ cpc = "x"
    /\ cMid' = parseTimeInput(cIn)
    /\ cpc' = "x_parsed"
    /\ UNCHANGED <<cIn, cOut>>
    /\ UNCHANGED formVars

FormatParsed ==
    /\ cpc = "x_parsed"
    /\ cMid # Null
    /\ cOut' = formatSeconds(Get(cMid))
    /\ cpc' = "x_done"
    /\ UNCHANGED <<cIn, cMid>>
    /\ UNCHANGED formVars

CodecInit ==
    /\ clips = BASE_CLIPS
    /\ titleInput = <<>>
    /\ startInput = <<"0", "0", ":", "3", "0">>
    /\ endInput = <<"0", "1", ":", "1", "5">>
    /\ error = Null
    /\ now = 0
    /\ lastEvent = "init"
    /\ cMid = Null
    /\ cOut = Null
    /\ \/ cpc = "n" /\ cIn \in 0..MaxSeconds
       \/ cpc = "x" /\ cIn \in Texts

CodecNext ==
    \/ FormatArg
    \/ ParseFormatted
    \/ ParseArg
    \/ FormatParsed

CodecSpec == CodecInit /\ [][CodecNext]_vars

\* ------------------------------------------------- the claims' vocabulary

\* x without its leading and trailing blanks, by positions.
Stripped(x) ==
    LET ns == {i \in 1..Len(x) : x[i] # " "}
    IN  IF ns = {} THEN <<>>
        ELSE SubSeq(x, CHOOSE i \in ns : \A j \in ns : i <= j,
                       CHOOSE i \in ns : \A j \in ns : i >= j)

IsBlank(x) == \A i \in 1..Len(x) : x[i] = " "

RECURSIVE Pow(_, _)
Pow(b, e) == IF e = 0 THEN 1 ELSE b * Pow(b, e - 1)

\* The k-th colon-separated segment of t, by the positions of the colons.
ColonPositions(t) == {i \in 1..Len(t) : t[i] = ":"}
SegmentCount(t) == Cardinality(ColonPositions(t)) + 1
Boundary(t, k) ==
    IF k = 0 THEN 0
    ELSE IF k = SegmentCount(t) THEN Len(t) + 1
    ELSE CHOOSE p \in ColonPositions(t) :
             Cardinality({q \in ColonPositions(t) : q < p}) = k - 1
Segment(t, k) == SubSeq(t, Boundary(t, k - 1) + 1, Boundary(t, k) - 1)

IsDecimal(seg) ==
    seg # <<>> /\ \A i \in 1..Len(seg) : \E d \in 0..9 : seg[i] = DigitChars[d + 1]

RECURSIVE DecimalValue(_, _)
DecimalValue(seg, i) ==
    IF i > Len(seg) THEN 0
    ELSE (CHOOSE d \in 0..9 : seg[i] = DigitChars[d + 1]) * Pow(10, Len(seg) - i)
         + DecimalValue(seg, i + 1)

\* The segment's value as a number: beyond the doubles it is Infinity.
Overflows(seg) ==
    \E i \in 1..Len(seg) : seg[i] # "0" /\ Len(seg) - i + 1 > MaxFiniteDigits
SegmentValue(seg) == IF Overflows(seg) THEN Infinity ELSE DecimalValue(seg, 1)

RECURSIVE Accumulated(_, _)
Accumulated(t, k) ==
    IF k > SegmentCount(t) THEN 0
    ELSE SegmentValue(Segment(t, k)) * Pow(60, SegmentCount(t) - k)
         + Accumulated(t, k + 1)

\* What the specification says parse returns for the text x.
SpecifiedParse(x) ==
    LET t == Stripped(x)
    IN  IF \/ t = <<>>
           \/ SegmentCount(t) > 3
           \/ \E k \in 1..SegmentCount(t) : ~IsDecimal(Segment(t, k))
        THEN Null
        ELSE IF \E k \in 1..SegmentCount(t) : Overflows(Segment(t, k))
        THEN Some(Infinity)
        ELSE Some(Accumulated(t, 1))

\* The current start and end texts both parse and end > start.
FieldsValid ==
    /\ parseTimeInput(startInput) # Null
    /\ parseTimeInput(endInput) # Null
    /\ jsGt(Get(parseTimeInput(endInput)), Get(parseTimeInput(startInput)))

\* The error a submit of the current fields is specified to leave.
SpecifiedError ==
    IF parseTimeInput(startInput) = Null \/ parseTimeInput(endInput) = Null
    THEN Some(MalformedTimeMsg)
    ELSE IF jsLeq(Get(parseTimeInput(endInput)), Get(parseTimeInput(startInput)))
    THEN Some(InvalidRangeMsg)
    ELSE Null

\* The step is a submit; the step is a submit that added a clip.
Submitted == lastEvent' = "submit"
Added == lastEvent' = "submit" /\ Len(clips') = Len(clips) + 1

IsSeeded(clip) == \E i \in 1..Len(BASE_CLIPS) : BASE_CLIPS[i] = clip
CustomCount(cs) == Cardinality({i \in 1..Len(cs) : ~IsSeeded(cs[i])})

\* ------------------------------------------------------------- the claims

\* C1: a submit that fails (a start or end text that does not parse, or
\* end <= start) leaves the clip collection as it was: same clips, same order.
C1_FailedSubmitKeepsClips ==
    [][(Submitted /\ ~FieldsValid) => clips' = clips]_vars

\* C1 witness: a submit has just failed on the range, after a clip was added.
C1_Witness ==
    /\ lastEvent = "submit"
    /\ error = Some(InvalidRangeMsg)
    /\ Len(clips) > Len(BASE_CLIPS)

\* C2: a successful submit puts the new clip at index 1 with the previous
\* collection after it unchanged; the length grows by one per successful
\* submit and never shrinks; the seeded clips stay the last three, in order.
C2_PrependOnly ==
    [][ /\ (Submitted /\ FieldsValid) =>
               (Len(clips') = Len(clips) + 1 /\ Tail(clips') = clips)
        /\ Len(clips') >= Len(clips)
        /\ SubSeq(clips', Len(clips') - 2, Len(clips')) = BASE_CLIPS ]_vars

\* C2 witness: two clips were added, the second by the submit just handled.
C2_Witness ==
    /\ lastEvent = "submit"
    /\ Len(clips) = Len(BASE_CLIPS) + 2
    /\ error = Null

\* C3 (as claimed): every clip of the collection has integer start and end
\* with end > start >= 0.
C3_ClipRanges ==
    \A i \in 1..Len(clips) :
        /\ IsInteger(clips[i].start)
        /\ IsInteger(clips[i].end)
        /\ clips[i].start >= 0
        /\ jsGt(clips[i].end, clips[i].start)

\* C4 (as claimed): the ids of the clips of the collection are pairwise
\* distinct.
C4_IdsDistinct ==
    \A i, j \in 1..Len(clips) : i # j => clips[i].id # clips[j].id

\* C5 (as claimed): a successful submit with a blank title gives the new
\* clip a title that no clip already in the collection has.
C5_AutoTitleFresh ==
    [][(Added /\ IsBlank(titleInput)) =>
           \A i \in 1..Len(clips) : clips[i].title # clips'[1].title]_vars

\* C6 (as claimed): a successful submit with a blank title names the new
\* clip "Custom clip #N", N the number of user-added clips counting the new
\* one; with a non-blank title the clip has the typed title, trimmed.
C6_NthCustomTitle ==
    [][Added =>
           clips'[1].title =
               IF IsBlank(titleInput)
               THEN CustomTitlePrefix \o String(CustomCount(clips'))
               ELSE Stripped(titleInput)]_vars

\* C7: after a submit the error is the one that submit alone determines
\* (malformed time first, then invalid range, else none); an edit of a field
\* leaves the error as it is.
C7_ErrorSlot ==
    [][ /\ Submitted => error' = SpecifiedError
        /\ lastEvent' = "edit" => error' = error ]_vars

\* C7 witness: the malformed-time error of an earlier submit is still shown
\* after an edit, in a session that had added a clip before.
C7_Witness ==
    /\ lastEvent = "edit"
    /\ error = Some(MalformedTimeMsg)
    /\ Len(clips) > Len(BASE_CLIPS)
    /\ FieldsValid

C8_ReformatDiffers ==
    /\ cpc = "x_done"
    /\ cIn = <<"5", ":", "9", "9">>
    /\ cOut = <<"6", ":", "3", "9">>

\* C9: parse is invalid exactly for an empty trimmed text, more than three
\* segments or a segment that is not one or more digits, and is otherwise
\* the accumulation total * 60 + segment over the segments.
C9_ParseAsSpecified ==
    cpc \in {"x_parsed", "x_done"} => cMid = SpecifiedParse(cIn)

\* C9 witness: " 99:99 " was parsed to 6039.
C9_Witness ==
    /\ cpc = "x_parsed"
    /\ cIn = <<" ", "9", "9", ":", "9", "9", " ">>
    /\ cMid = Some(6039)

\* C10: the preview share link is shown exactly when the start and end texts
\* both parse with end > start, which is exactly when a submit of the fields
\* adds a clip; when shown it is the share URL of the parsed start.
C10_PreviewIffSubmittable ==
    /\ [](/\ (previewNotice # Null) <=> FieldsValid
          /\ previewNotice # Null =>
                 previewNotice =
                     Some(WatchBase \o VIDEO_ID \o <<"&", "t", "=">>
                              \o String(Get(parseTimeInput(startInput))) \o <<"s">>))
    /\ [][Submitted => ((clips' # clips) <=> (previewNotice # Null))]_vars

\* C10 witness: the preview is shown for the fields a submit has just added
\* a clip from.
C10_Witness ==
    /\ previewNotice # Null
    /\ lastEvent = "submit"
    /\ Len(clips) > Len(BASE_CLIPS)
    /\ clips[1].start = 30
    /\ clips[1].end = 75

====
